---- MODULE Spec2Model ----
(***************************************************************************)
(* Model of the two Slack bots of athenianco/approve_button:               *)
(*   src/main.py                 the pull-request approval bot             *)
(*   src/sentry_summary/main.py  the Sentry performance-report bot         *)
(* The two are separate programs; `app` says which one this behaviour is   *)
(* a run of.  Every external call (GitHub, Sentry, Slack, secret manager)  *)
(* is one step of a handler, and its outcome is chosen nondeterministically *)
(* among a response and a raised exception.                                *)
(***************************************************************************)
EXTENDS Integers, Sequences, FiniteSets, TLC

VARIABLES
    app,            \* which program runs: "approve_button" or "sentry_summary"
    pc,             \* worker thread -> position in the handler it runs ("idle": none)
    loc,            \* worker thread -> locals of the handler it runs
    \* ---- src/main.py
    offers,         \* the offer messages the bot has posted (index = Slack ts of the offer)
    replies,        \* the failure replies the bot has posted
    reactions,      \* reactions on channel messages
    reviews,        \* review requests the code-hosting API has answered
    sent_count,     \* prometheus counter sent_offers
    approved_count, \* prometheus counter approved_prs
    msgRuns,        \* message deliveries handled so far
    cbRuns,         \* callback deliveries handled so far
    \* ---- src/sentry_summary/main.py
    posts,          \* the messages the report bot has posted
    queries,        \* queries the monitoring API has answered
    sent_performance_count, \* prometheus counter sent_sentry_performance_reports
    repRuns,        \* report-bot message deliveries handled so far
    \* ---- history
    ended           \* how many handler runs have ended, by <<handler, offer, outcome>>

vars == <<app, pc, loc, offers, replies, reactions, reviews, sent_count, approved_count,
          msgRuns, cbRuns, posts, queries, sent_performance_count, repRuns, ended>>

\* ------------------------------------------------------------------ bounds
MaxMsgRuns == 1
MaxCbRuns == 2
MaxRepRuns == 2

\* the server's threads: each handles one delivery at a time
Workers == {"w1", "w2"}

\* ------------------------------------------------------------------ text
\* A message text is a sequence of tokens.  The tokens that contain a "/"
\* are atomic; every other token stands for characters other than "/".
G == "https://github.com/"
O == "athenianco/"
X == "other/"
U == "/pull/"
Slash == "/"
DigitChars == <<"0", "1", "2", "3", "4", "5", "6", "7", "8", "9">>
IsDigit(c) == \E i \in 1..Len(DigitChars) : DigitChars[i] = c
DigitVal(c) == (CHOOSE i \in 1..Len(DigitChars) : DigitChars[i] = c) - 1
\* [^/]
NotSlash(c) == c \notin {G, O, X, U, Slash}

\* int(): the value of a non-empty run of decimal digits
RECURSIVE int(_)
int(ds) ==
    IF Len(ds) = 0 THEN 0
    ELSE 10 * int(SubSeq(ds, 1, Len(ds) - 1)) + DigitVal(ds[Len(ds)])

\* The longest e >= from - 1 such that text[from..e] all satisfy the class.
RECURSIVE RunEnd(_, _, _)
RunEnd(text, from, isDigitClass) ==
    IF from > Len(text) THEN from - 1
    ELSE IF (IF isDigitClass THEN IsDigit(text[from]) ELSE NotSlash(text[from]))
         THEN RunEnd(text, from + 1, isDigitClass)
         ELSE from - 1

\* pr_re.match at position s: the match (repo, digits, end) or NoMatch.
\* [^/]+ and \d+ are greedy; what follows [^/]+ is "/pull/", which is not in
\* the class, so backtracking to a shorter run never matches.
NoMatch == [found |-> FALSE]
MatchAt(text, s) ==
    IF ~(s + 1 <= Len(text) /\ text[s] = G /\ text[s + 1] = O) THEN NoMatch
    ELSE LET k == RunEnd(text, s + 2, FALSE)
         IN  IF k < s + 2 \/ k + 1 > Len(text) \/ text[k + 1] # U THEN NoMatch
             ELSE LET e == RunEnd(text, k + 2, TRUE)
                  IN  IF e < k + 2 THEN NoMatch
                      ELSE [found |-> TRUE,
                            group1 |-> <<O>> \o SubSeq(text, s + 2, k),
                            group2 |-> SubSeq(text, k + 2, e),
                            end |-> e]

\* pr_re.finditer(text): the non-overlapping matches, scanning left to right
\* and resuming after the end of each match.
RECURSIVE FindIterFrom(_, _)
FindIterFrom(text, s) ==
    IF s > Len(text) THEN <<>>
    ELSE LET m == MatchAt(text, s)
         IN  IF m.found THEN <<m>> \o FindIterFrom(text, m.end + 1)
             ELSE FindIterFrom(text, s + 1)

FindFirstOnly(text) ==
    LET all == FindIterFrom(text, 1)
    IN  IF Len(all) = 0 THEN <<>> ELSE <<all[1]>>

finditer(text) == FindIterFrom(text, 1)

\* The messages users post in the channel: each has its own Slack ts.
Messages == {
    [ts |-> "ts1", text |-> <<"please check ", G, O, "foo", U, "4", "2">>],
    [ts |-> "ts2", text |-> <<G, O, "foo", U, " ", G, X, "foo", U, "1", G, O, "foo", U, "0", "7",
                              " and ", G, O, "bar", "1", U, "3", ".">>],
    [ts |-> "ts3", text |-> <<G, O, "foo", Slash, "bar", U, "5", " ", "foo", Slash, "4", "2">>]
}
TextOf(ts) == (CHOOSE m \in Messages : m.ts = ts).text


\* ------------------------------------------------------------------ threads
NoRun == [kind |-> "none"]
Terminal == {"done", "crashed"}
Kinds == {"message_url", "action_approve", "report_api_performance"}

\* How the handler a thread runs has ended
Outcome(p) ==
    IF pc[p] = "crashed" THEN "raised"
    ELSE CASE loc[p].kind = "message_url" -> "returned"
           [] loc[p].kind = "action_approve" ->
                IF loc[p].post = "ok" THEN "approved" ELSE "failed"
           [] loc[p].kind = "report_api_performance" ->
                IF loc[p].queried = "ok" THEN "reported"
                ELSE IF loc[p].queried = "none" THEN "ignored" ELSE "failed"

\* The logical event a run handles: the offer clicked, or the message's ts
Event(p) == IF loc[p].kind = "action_approve" THEN loc[p].offer ELSE loc[p].ts

Count(b, k) == IF k \in DOMAIN b THEN b[k] ELSE 0
Bump(b, k) == [x \in DOMAIN b \cup {k} |-> Count(b, x) + (IF x = k THEN 1 ELSE 0)]
RECURSIVE Total(_, _)
Total(b, keys) ==
    IF keys = {} THEN 0
    ELSE LET k == CHOOSE x \in keys : TRUE
         IN  Count(b, k) + Total(b, keys \ {k})
\* the runs of action_approve on offer o that have ended
EndedOn(o) == Total(ended, {k \in DOMAIN ended : k[1] = "action_approve" /\ k[2] = o})
\* the runs of a handler that have ended with an outcome
EndedWith(kind, outcome) ==
    Total(ended, {k \in DOMAIN ended : k[1] = kind /\ k[3] = outcome})

\* ------------------------------------------------------------------ values
\* An exception: its type name and its str().
Exc(type, msg) == [type |-> type, msg |-> msg]
\* f"{type(e).__name__}: {str(e)}"
ExcReason(e) == <<e.type, ": ", e.msg>>
KeyError(k) == Exc("KeyError", k)

Raised(e) == [raised |-> TRUE, exc |-> e]
Response(ok, text) == [raised |-> FALSE, ok |-> ok, text |-> text]
Returned == [raised |-> FALSE]

\* What a call to the Slack Web API does: it returns, or raises SlackApiError.
SlackOutcomes == {Returned, Raised(Exc("SlackApiError", "request failed"))}

\* prometheus_client.Counter.inc(): one atomic step
incLost(c) == IF c >= 1 THEN c ELSE c + 1
inc(c) == c + 1

\* ------------------------------------------------------------------ diff
NL == "\n"
\* response.text of the diff endpoint: a sequence of characters
DiffHeader == <<"d", "i", "f", "f", NL>>
DiffShort == DiffHeader \o <<"-", "a", NL, "+", "b", NL, " ", "c", NL, "+", NL>>
DiffLong == DiffHeader \o
    <<"-", "1", NL, "+", "2", NL, " ", "c", NL, "+", "3", NL, "+", "4", NL,
      "-", "5", NL, "+", "6", NL, " ", "+", NL, "+", "7", NL, "-", "8", NL, "+", "9", NL>>
DiffEight == DiffHeader \o
    <<"+", "1", NL, "+", "2", NL, NL, "-", "3", NL, "+", "4", NL, "-", "5", NL,
      "+", "6", NL, "c", "+", NL, "+", "7", NL, "-", "8">>
\* the diff the code-hosting API holds for a pull request
DiffOf(repo, number) ==
    IF number = 7 THEN DiffLong ELSE IF number = 3 THEN DiffEight ELSE DiffShort

\* str.split(sep): the pieces between the separators (always at least one)
RECURSIVE SplitFrom(_, _, _)
SplitFrom(text, sep, cur) ==
    IF Len(text) = 0 THEN <<cur>>
    ELSE IF text[1] = sep THEN <<cur>> \o SplitFrom(Tail(text), sep, <<>>)
    ELSE SplitFrom(Tail(text), sep, Append(cur, text[1]))
split(text, sep) == SplitFrom(text, sep, <<>>)

\* sep.join(lines)
RECURSIVE join(_, _)
join(sep, lines) ==
    IF Len(lines) = 0 THEN <<>>
    ELSE IF Len(lines) = 1 THEN lines[1]
    ELSE lines[1] \o <<sep>> \o join(sep, Tail(lines))

\* line[:1] in ("+", "-")
IsChanged(line) == Len(line) >= 1 /\ line[1] \in {"+", "-"}
\* [line for line in lines if line[:1] in ("+", "-")]
RECURSIVE ChangedLines(_)
ChangedLines(lines) ==
    IF Len(lines) = 0 THEN <<>>
    ELSE (IF IsChanged(lines[1]) THEN <<lines[1]>> ELSE <<>>) \o ChangedLines(Tail(lines))
Ellipsis == <<".", ".", ".">>
DiffLimit == 8

DiffLinesAtLimit(text) ==
    LET changed == ChangedLines(split(text, NL))
    IN  IF Len(changed) >= DiffLimit
        THEN SubSeq(changed, 1, DiffLimit) \o <<Ellipsis>>
        ELSE changed
\* main.py:62-64: the changed lines, cut to DiffLimit plus an ellipsis line
DiffLines(text) ==
    LET changed == ChangedLines(split(text, NL))
    IN  IF Len(changed) > DiffLimit
        THEN SubSeq(changed, 1, DiffLimit) \o <<Ellipsis>>
        ELSE changed

\* the three backquotes that open and close a code block
Fence == "[code fence]"
SectionMrkdwn(t) == [type |-> "section", text |-> [type |-> "mrkdwn", text |-> t]]
SectionPlain(t) == [type |-> "section", text |-> [type |-> "plain_text", text |-> t]]

\* main.py:61-75: the blocks that show the diff, none when the read failed
DiffBlocks(response) ==
    IF response.ok
    THEN <<SectionMrkdwn(<<Fence>> \o join(NL, DiffLines(response.text)) \o <<Fence>>)>>
    ELSE <<>>

\* requests.get of the diff: a response or a raised transport error
GetDiffOutcomes(repo, number) ==
    {Response(TRUE, DiffOf(repo, number)),
     Response(FALSE, <<"Not Found">>),
     Raised(Exc("ConnectionError", "connection aborted"))}

\* ------------------------------------------------------------------ message_url
ApproveButton ==
    [type |-> "actions",
     elements |-> <<[type |-> "button", action_id |-> "approve", style |-> "primary",
                     text |-> [type |-> "plain_text", text |-> "Approve", emoji |-> TRUE]]>>]

\* main.py:103-110: the workflow context written into the offer
OfferMetadataOwnTs(repo, number, ts) ==
    [event_type |-> "approve_offer",
     event_payload |-> [repository |-> repo, number |-> number, ts |-> "offer"]]
OfferMetadata(repo, number, ts) ==
    [event_type |-> "approve_offer",
     event_payload |-> [repository |-> repo, number |-> number, ts |-> ts]]

\* main.py:76-111: the arguments of say()
OfferMessage(repo, number, ts, diff) ==
    [blocks |-> <<SectionMrkdwn(<<"Approve this PR? *", repo, "#", number, "*">>),
                  ApproveButton>> \o diff,
     text |-> <<"Approve this PR? ", repo, "#", number>>,
     metadata |-> OfferMetadata(repo, number, ts)]

MsgRun == [kind |-> "message_url", run |-> 0, ts |-> "", i |-> 0, read |-> "none",
           diff |-> <<>>, propagated |-> <<>>]

\* The i-th match of the running handler's loop
CurMatch(p) == finditer(TextOf(loc[p].ts))[loc[p].i]
CurRepo(p) == CurMatch(p).group1
CurNumber(p) == int(CurMatch(p).group2)

\* main.py:49: the listener runs only for a text the pattern matches
ListenerMatches(text) == \E s \in 1..Len(text) : MatchAt(text, s).found

MsgIgnore(p, m) ==
    /\ app = "approve_button"
    /\ pc[p] = "idle"
    /\ msgRuns < MaxMsgRuns
    /\ ~ListenerMatches(m.text)
    /\ msgRuns' = msgRuns + 1
    /\ UNCHANGED <<app, pc, loc, offers, replies, reactions, reviews, sent_count,
                   approved_count, cbRuns, posts, queries, sent_performance_count,
                   repRuns, ended>>

\* main.py:49-51: a delivery enters the handler and the loop's first iteration
\* (an empty finditer ends the handler at once)
MsgDeliver(p, m) ==
    /\ app = "approve_button"
    /\ pc[p] = "idle"
    /\ msgRuns < MaxMsgRuns
    /\ ListenerMatches(m.text)
    /\ msgRuns' = msgRuns + 1
    /\ loc' = [loc EXCEPT ![p] = [MsgRun EXCEPT !.run = msgRuns + 1, !.ts = m.ts, !.i = 1]]
    /\ pc' = [pc EXCEPT ![p] = IF Len(finditer(m.text)) >= 1 THEN "get_diff" ELSE "done"]
    /\ UNCHANGED <<app, offers, replies, reactions, reviews, sent_count,
                   approved_count, cbRuns, posts, queries, sent_performance_count,
                   repRuns, ended>>

\* main.py:52-75: the diff read of the current link
MsgGetDiff(p) ==
    /\ app = "approve_button"
    /\ pc[p] = "get_diff"
    /\ \E r \in GetDiffOutcomes(CurRepo(p), CurNumber(p)) :
        /\ IF r.raised
           THEN /\ loc' = [loc EXCEPT ![p].read = "raised", ![p].propagated = r.exc]
                /\ pc' = [pc EXCEPT ![p] = "crashed"]
           ELSE /\ loc' = [loc EXCEPT ![p].read = IF r.ok THEN "ok" ELSE "rejected",
                                       ![p].diff = DiffBlocks(r)]
                /\ pc' = [pc EXCEPT ![p] = "say_offer"]
        /\ UNCHANGED <<app, offers, replies, reactions, reviews, sent_count,
                       approved_count, msgRuns, cbRuns, posts, queries,
                       sent_performance_count, repRuns, ended>>

\* main.py:76-111: say() posts the offer
MsgSay(p) ==
    /\ app = "approve_button"
    /\ pc[p] = "say_offer"
    /\ \E s \in SlackOutcomes :
        /\ IF s.raised
           THEN /\ loc' = [loc EXCEPT ![p].propagated = s.exc]
                /\ pc' = [pc EXCEPT ![p] = "crashed"]
                /\ UNCHANGED offers
           ELSE /\ offers' = Append(offers,
                      [msg |-> OfferMessage(CurRepo(p), CurNumber(p), loc[p].ts, loc[p].diff),
                       run |-> loc[p].run, trigger |-> loc[p].ts, deleted |-> FALSE])
                /\ pc' = [pc EXCEPT ![p] = "inc_sent"]
                /\ UNCHANGED loc
        /\ UNCHANGED <<app, replies, reactions, reviews, sent_count, approved_count,
                       msgRuns, cbRuns, posts, queries, sent_performance_count,
                       repRuns, ended>>

\* main.py:112 and the loop's next iteration
MsgInc(p) ==
    /\ app = "approve_button"
    /\ pc[p] = "inc_sent"
    /\ sent_count' = inc(sent_count)
    /\ loc' = [loc EXCEPT ![p].i = @ + 1, ![p].read = "none", ![p].diff = <<>>]
    /\ pc' = [pc EXCEPT ![p] =
                 IF loc[p].i + 1 <= Len(finditer(TextOf(loc[p].ts))) THEN "get_diff" ELSE "done"]
    /\ UNCHANGED <<app, offers, replies, reactions, reviews, approved_count, msgRuns,
                   cbRuns, posts, queries, sent_performance_count, repRuns, ended>>


\* ------------------------------------------------------------------ action_approve
Users == {"U1", "U2"}
Channel == "C1"
\* the secrets the secret manager holds
SecretNames == {<<"github_token_", "U1">>}

\* get_secret(name): the secret, or the exception the secret manager raises
GetSecretOutcomes(name) ==
    IF name \in SecretNames
    THEN {[raised |-> FALSE, token |-> <<"token of ", name>>]}
    ELSE {Raised(Exc("NotFound", "secret not found"))}

\* requests.post of the review: a response or a raised transport error
PostOutcomes ==
    {Response(TRUE, <<"review created">>),
     Response(FALSE, <<"Unprocessable Entity">>),
     Raised(Exc("ConnectionError", "connection aborted"))}

Has(d, k) == k \in DOMAIN d
Restrict(d, keys) == [k \in keys |-> d[k]]

\* The "message" of an interactive callback on offer o.  Slack hands back the
\* offer's ts and metadata; the other variants are messages whose metadata is
\* missing or lacks one field.
Variants == {"intact", "no_metadata", "no_event_payload",
             "no_repository", "no_number", "no_ts"}
CallbackMessage(o, v) ==
    LET md == offers[o].msg.metadata
        without(k) == [ts |-> o,
                       metadata |-> [event_type |-> md.event_type,
                                     event_payload |->
                                        Restrict(md.event_payload,
                                                 DOMAIN md.event_payload \ {k})]]
    IN  CASE v = "intact" -> [ts |-> o, metadata |-> md]
          [] v = "no_metadata" -> [ts |-> o]
          [] v = "no_event_payload" -> [ts |-> o, metadata |-> [event_type |-> md.event_type]]
          [] v = "no_repository" -> without("repository")
          [] v = "no_number" -> without("number")
          [] v = "no_ts" -> without("ts")

CbRun ==
    [kind |-> "action_approve", offer |-> 0, attempt |-> 0, variant |-> "", body |-> <<>>, metadata |-> <<>>,
     secret |-> "none", token |-> <<>>, post |-> "none", reason |-> <<>>,
     replied |-> "none", reacted |-> <<>>, deleted |-> FALSE, counted |-> FALSE,
     propagated |-> <<>>]

\* main.py:121-140: the arguments of say() in fail()
FailMessage(metadata, reason) ==
    [blocks |-> <<SectionMrkdwn(<<"Failed to approve *", metadata["repository"], "#",
                                  metadata["number"], "*:">>),
                  SectionPlain(reason)>>,
     text |-> <<"Failed to approve *", metadata["repository"], "#",
                metadata["number"], "*">>]

\* The first key of `keys` that the dict lacks (the KeyError a lookup raises)
MissingKey(d, keys) ==
    LET i == CHOOSE j \in 1..Len(keys) :
                 /\ ~Has(d, keys[j])
                 /\ \A h \in 1..(j - 1) : Has(d, keys[h])
    IN  keys[i]
HasAll(d, keys) == \A j \in 1..Len(keys) : Has(d, keys[j])

\* main.py:156: the offer and its button exist until chat_delete; until then
\* every click on it is delivered, whatever other handlers are doing
ClickableOnce(o) ==
    /\ ~offers[o].deleted
    /\ \A q \in Workers : ~(loc[q].kind = "action_approve" /\ loc[q].offer = o)
Clickable(o) == ~offers[o].deleted

\* main.py:115-119: ack(), then the workflow context is read from the body
CbDeliver(p, o, v, u) ==
    /\ app = "approve_button"
    /\ pc[p] = "idle"
    /\ cbRuns < MaxCbRuns
    /\ o \in 1..Len(offers)
    /\ Clickable(o)
    /\ cbRuns' = cbRuns + 1
    /\ LET body == [message |-> CallbackMessage(o, v),
                    user |-> [id |-> u], channel |-> [id |-> Channel]]
           message == body["message"]
           run == [CbRun EXCEPT !.offer = o, !.variant = v, !.body = body,
                                !.attempt = EndedOn(o) + 1]
       IN  IF ~Has(message, "metadata")
           THEN /\ loc' = [loc EXCEPT ![p] = [run EXCEPT !.propagated = KeyError("metadata")]]
                /\ pc' = [pc EXCEPT ![p] = "crashed"]
           ELSE IF ~Has(message["metadata"], "event_payload")
           THEN /\ loc' = [loc EXCEPT ![p] =
                              [run EXCEPT !.propagated = KeyError("event_payload")]]
                /\ pc' = [pc EXCEPT ![p] = "crashed"]
           ELSE /\ loc' = [loc EXCEPT ![p] =
                              [run EXCEPT !.metadata = message["metadata"]["event_payload"]]]
                /\ pc' = [pc EXCEPT ![p] = "get_secret"]
    /\ UNCHANGED <<app, offers, replies, reactions, reviews, sent_count,
                   approved_count, msgRuns, posts, queries, sent_performance_count,
                   repRuns, ended>>

\* main.py:143: the acting user's credential
CbGetSecret(p) ==
    /\ app = "approve_button"
    /\ pc[p] = "get_secret"
    /\ \E r \in GetSecretOutcomes(<<"github_token_", loc[p].body["user"]["id"]>>) :
        /\ IF r.raised
           THEN /\ loc' = [loc EXCEPT ![p].secret = "raised", ![p].reason = ExcReason(r.exc)]
                /\ pc' = [pc EXCEPT ![p] = "fail"]
           ELSE /\ loc' = [loc EXCEPT ![p].secret = "ok", ![p].token = r.token]
                /\ pc' = [pc EXCEPT ![p] = "post"]
        /\ UNCHANGED <<app, offers, replies, reactions, reviews, sent_count,
                       approved_count, msgRuns, cbRuns, posts, queries,
                       sent_performance_count, repRuns, ended>>

\* main.py:144-159: the review request.  The URL is formatted inside the try,
\* so a missing key is caught like a transport error.
CbPost(p) ==
    /\ app = "approve_button"
    /\ pc[p] = "post"
    /\ \E r \in PostOutcomes :
        /\ LET metadata == loc[p].metadata
           IN  IF ~HasAll(metadata, <<"repository", "number">>)
               THEN /\ r = CHOOSE x \in PostOutcomes : TRUE
                    /\ loc' = [loc EXCEPT
                           ![p].post = "not_sent",
                           ![p].reason =
                               ExcReason(KeyError(MissingKey(metadata, <<"repository", "number">>)))]
                    /\ pc' = [pc EXCEPT ![p] = "fail"]
                    /\ UNCHANGED reviews
               ELSE IF r.raised
               THEN /\ loc' = [loc EXCEPT ![p].post = "raised", ![p].reason = ExcReason(r.exc)]
                    /\ pc' = [pc EXCEPT ![p] = "fail"]
                    /\ UNCHANGED reviews
               ELSE /\ reviews' = Append(reviews,
                          [repository |-> metadata["repository"], number |-> metadata["number"],
                           token |-> loc[p].token, event |-> "APPROVE", ok |-> r.ok])
                    /\ IF r.ok
                       THEN /\ loc' = [loc EXCEPT ![p].post = "ok"]
                            /\ pc' = [pc EXCEPT ![p] = "react"]
                       ELSE /\ loc' = [loc EXCEPT ![p].post = "rejected", ![p].reason = r.text]
                            /\ pc' = [pc EXCEPT ![p] = "fail"]
        /\ UNCHANGED <<app, offers, replies, reactions, sent_count, approved_count,
                       msgRuns, cbRuns, posts, queries, sent_performance_count,
                       repRuns, ended>>

\* main.py:151, 159: the `return` after fail(): the handler is over
AfterFailFallsThrough(post) == IF post = "rejected" THEN "inc_approved" ELSE "done"
AfterFailCountsRaised(post) == IF post = "raised" THEN "inc_approved" ELSE "done"
AfterFail(post) == "done"

\* main.py:121-140, 150-151, 158-159: fail(reason), then return
CbFail(p) ==
    /\ app = "approve_button"
    /\ pc[p] = "fail"
    /\ \E s \in SlackOutcomes :
        /\ LET metadata == loc[p].metadata
           IN  IF ~HasAll(metadata, <<"repository", "number">>)
               THEN /\ s = Returned
                    /\ loc' = [loc EXCEPT ![p].propagated =
                                  KeyError(MissingKey(metadata, <<"repository", "number">>))]
                    /\ pc' = [pc EXCEPT ![p] = "crashed"]
                    /\ UNCHANGED replies
               ELSE IF s.raised
               THEN /\ loc' = [loc EXCEPT ![p].replied = "raised", ![p].propagated = s.exc]
                    /\ pc' = [pc EXCEPT ![p] = "crashed"]
                    /\ UNCHANGED replies
               ELSE /\ replies' = Append(replies,
                          [msg |-> FailMessage(metadata, loc[p].reason)])
                    /\ loc' = [loc EXCEPT ![p].replied = "sent"]
                    /\ pc' = [pc EXCEPT ![p] = AfterFail(loc[p].post)]
        /\ UNCHANGED <<app, offers, reactions, reviews, sent_count, approved_count,
                       msgRuns, cbRuns, posts, queries, sent_performance_count,
                       repRuns, ended>>

\* main.py:153-155: the reaction on the message that triggered the offer
CbReact(p) ==
    /\ app = "approve_button"
    /\ pc[p] = "react"
    /\ \E s \in SlackOutcomes :
        /\ LET metadata == loc[p].metadata
           IN  IF ~Has(metadata, "ts")
               THEN /\ s = Returned
                    /\ loc' = [loc EXCEPT ![p].propagated = KeyError("ts")]
                    /\ pc' = [pc EXCEPT ![p] = "crashed"]
                    /\ UNCHANGED reactions
               ELSE IF s.raised
               THEN /\ loc' = [loc EXCEPT ![p].propagated = s.exc]
                    /\ pc' = [pc EXCEPT ![p] = "crashed"]
                    /\ UNCHANGED reactions
               ELSE /\ reactions' = reactions \cup
                          {[channel |-> loc[p].body["channel"]["id"],
                            timestamp |-> metadata["ts"], name |-> "heavy_check_mark"]}
                    /\ loc' = [loc EXCEPT ![p].reacted = <<metadata["ts"]>>]
                    /\ pc' = [pc EXCEPT ![p] = "delete"]
        /\ UNCHANGED <<app, offers, replies, reviews, sent_count, approved_count,
                       msgRuns, cbRuns, posts, queries, sent_performance_count,
                       repRuns, ended>>

\* main.py:156: the offer message is deleted
CbDelete(p) ==
    /\ app = "approve_button"
    /\ pc[p] = "delete"
    /\ \E s \in SlackOutcomes :
        /\ IF s.raised
           THEN /\ loc' = [loc EXCEPT ![p].propagated = s.exc]
                /\ pc' = [pc EXCEPT ![p] = "crashed"]
                /\ UNCHANGED offers
           ELSE /\ offers' = [offers EXCEPT ![loc[p].body["message"]["ts"]].deleted = TRUE]
                /\ loc' = [loc EXCEPT ![p].deleted = TRUE]
                /\ pc' = [pc EXCEPT ![p] = "inc_approved"]
        /\ UNCHANGED <<app, replies, reactions, reviews, sent_count, approved_count,
                       msgRuns, cbRuns, posts, queries, sent_performance_count,
                       repRuns, ended>>

\* main.py:160
CbInc(p) ==
    /\ app = "approve_button"
    /\ pc[p] = "inc_approved"
    /\ approved_count' = inc(approved_count)
    /\ loc' = [loc EXCEPT ![p].counted = TRUE]
    /\ pc' = [pc EXCEPT ![p] = "done"]
    /\ UNCHANGED <<app, offers, replies, reactions, reviews, sent_count, msgRuns,
                   cbRuns, posts, queries, sent_performance_count, repRuns, ended>>


\* ------------------------------------------------------------------ sentry_summary
\* The words of a message text are atomic tokens; digits, "h" and "d" are
\* single characters.  A literal occurs in a text when one token contains it.
TokensWith(literal) ==
    CASE literal = "api" -> {"api", "rapid"}
      [] literal = "request" -> {"request", "requests"}
      [] literal = "slow" -> {"slow"}
      [] literal = "performance" -> {"performance"}
ContainsAnything(text, literal) == TRUE
Contains(text, literal) == \E i \in 1..Len(text) : text[i] \in TokensWith(literal)

\* a.*b: "." matches anything but a newline
DotStar(text, a, b) ==
    \E i, j \in 1..Len(text) :
        /\ i < j
        /\ text[i] \in TokensWith(a)
        /\ text[j] \in TokensWith(b)
        /\ \A k \in (i + 1)..(j - 1) : text[k] # NL

\* sentry_summary/main.py:53: performance|(request.*slow)|(slow.*request)
TriggerMatches(text) ==
    \/ Contains(text, "performance")
    \/ DotStar(text, "request", "slow")
    \/ DotStar(text, "slow", "request")

\* sentry_summary/main.py:38,59-62: stats_period_re.search(text), or "24h"
PeriodAt(text, s) ==
    LET e == RunEnd(text, s, TRUE)
    IN  IF e >= s /\ e + 1 <= Len(text) /\ text[e + 1] \in {"h", "d"}
        THEN SubSeq(text, s, e + 1) ELSE <<>>
DefaultPeriod == <<"2", "4", "h">>
StatsPeriodDefault(text) == DefaultPeriod
StatsPeriod(text) ==
    IF \E s \in 1..Len(text) : PeriodAt(text, s) # <<>>
    THEN LET s == CHOOSE t \in 1..Len(text) :
                     /\ PeriodAt(text, t) # <<>>
                     /\ \A u \in 1..(t - 1) : PeriodAt(text, u) = <<>>
         IN  PeriodAt(text, s)
    ELSE DefaultPeriod

\* sentry_summary/main.py:63
Limit == 20
PageSize == 10
\* sentry_summary/main.py:84
QueryTimeout == 10

RepMessages == {
    [ts |-> "p1", text |-> <<"are ", "requests", " ", "slow", " on the ", "api", "?">>],
    [ts |-> "p2", thread_ts |-> "p0",
     text |-> <<"api", " ", "performance", " last ", "7", "d">>],
    [ts |-> "p3", text |-> <<"performance", " of the website">>],
    [ts |-> "p4", text |-> <<"hello ", "api">>],
    [ts |-> "p5", text |-> <<"slow", NL, "requests", " ", "api", " ", "1", "2", "h">>],
    [ts |-> "p6", thread_ts |-> "p0",
     text |-> <<"rapid", " ", "slow", " ", "request", " ", "4", " ", "1", "0", "d", " ", "2", "h">>]
}

\* "%.3f" of a number given in millionths: [int, thousandths]
Fixed3(micro) ==
    LET t == (micro + 500) \div 1000
    IN  [int |-> t \div 1000, frac |-> t % 1000]

\* sentry_summary/main.py:45-50.  p50() and p95() arrive in milliseconds (here
\* in millionths of a millisecond) and are shown in seconds.
format_value(name, value) ==
    IF name \in {"p50()", "p95()"} THEN <<Fixed3(value \div 1000), "s">>
    ELSE IF name = "failure_rate()" THEN <<Fixed3(value)>>
    ELSE <<value>>

ReportKeys == <<"p50()", "p95()", "failure_rate()", "count_unique(user)", "count(user)">>
\* key.replace("()", "")
StripCall(key) ==
    CASE key = "p50()" -> "p50"
      [] key = "p95()" -> "p95"
      [] key = "failure_rate()" -> "failure_rate"
      [] OTHER -> key

\* The i-th record of a query result
Item(i) ==
    [k \in {"transaction"} \cup {ReportKeys[j] : j \in 1..Len(ReportKeys)} |->
        CASE k = "transaction" -> i
          [] k = "p50()" -> 12000000 * i + 456700
          [] k = "p95()" -> 95000000 * i + 1200
          [] k = "failure_rate()" -> 12345 * i
          [] k = "count_unique(user)" -> i
          [] k = "count(user)" -> 7 * i]
Data(n) == [i \in 1..n |-> Item(i)]
\* the sizes of the result sets the monitoring API returns
DataSizes == {0, 10, 11, 21}

\* sentry_summary/main.py:90-106
Field(item) ==
    [type |-> "mrkdwn",
     text |-> <<item["transaction"]>> \o
              [j \in 1..Len(ReportKeys) |->
                  <<StripCall(ReportKeys[j]), format_value(ReportKeys[j], item[ReportKeys[j]])>>]]
Fields(data) == [i \in 1..Len(data) |-> Field(data[i])]

SliceInclusive(seq, a, b) ==
    LET hi == IF b + 1 < Len(seq) THEN b + 1 ELSE Len(seq)
    IN  IF a >= hi THEN <<>> ELSE SubSeq(seq, a + 1, hi)
\* seq[a:b] with 0-based, end-exclusive bounds
Slice(seq, a, b) ==
    LET hi == IF b < Len(seq) THEN b ELSE Len(seq)
    IN  IF a >= hi THEN <<>> ELSE SubSeq(seq, a + 1, hi)

\* requests.get of the events: a response or a raised transport error
QueryOutcomes ==
    {[raised |-> FALSE, ok |-> TRUE, status_code |-> 200, text |-> <<"json">>,
      data |-> Data(n)] : n \in DataSizes}
    \cup {[raised |-> FALSE, ok |-> FALSE, status_code |-> 500, text |-> t, data |-> <<>>] :
            t \in {<<"Internal Error">>, <<>>}}
    \cup {Raised(Exc("Timeout", "read timed out")),
          Raised(Exc("ConnectionError", "connection aborted"))}

RepRun == [kind |-> "report_api_performance", run |-> 0, ts |-> "", thread_ts |-> "", stats_period |-> <<>>,
             fields |-> <<>>, error |-> <<>>, i |-> 0, sent |-> 0,
             queried |-> "none", counted |-> FALSE, propagated |-> <<>>]

\* sentry_summary/main.py:107-123: the first page
HeaderBlocks(stats_period, fields) ==
    <<SectionMrkdwn(<<"API performance report from Sentry, last ", stats_period,
                      ",  sorted by p95 descending, limit ", Limit>>),
      [type |-> "divider"],
      [type |-> "section", fields |-> Slice(fields, 0, PageSize)]>>

LastChunkFloor(fields) == Len(fields) \div PageSize
LastChunkNone(fields) == 0
\* sentry_summary/main.py:125: range(1, (len(fields) + 9) // 10)
LastChunk(fields) == ((Len(fields) + 9) \div PageSize) - 1

\* sentry_summary/main.py:53: the listener does not run
RepIgnore(p, m) ==
    /\ app = "sentry_summary"
    /\ pc[p] = "idle"
    /\ repRuns < MaxRepRuns
    /\ ~TriggerMatches(m.text)
    /\ repRuns' = repRuns + 1
    /\ UNCHANGED <<app, pc, loc, offers, replies, reactions, reviews, sent_count,
                   approved_count, msgRuns, cbRuns, posts, queries,
                   sent_performance_count, ended>>

\* sentry_summary/main.py:58: message.get("thread_ts", message["ts"])
ThreadTsOwn(m) == m["ts"]
ThreadTs(m) == IF Has(m, "thread_ts") THEN m["thread_ts"] ELSE m["ts"]

\* sentry_summary/main.py:54-63
RepDeliver(p, m) ==
    /\ app = "sentry_summary"
    /\ pc[p] = "idle"
    /\ repRuns < MaxRepRuns
    /\ TriggerMatches(m.text)
    /\ repRuns' = repRuns + 1
    /\ IF ~Contains(m.text, "api")
       THEN /\ loc' = [loc EXCEPT ![p] = [RepRun EXCEPT !.run = repRuns + 1, !.ts = m.ts]]
            /\ pc' = [pc EXCEPT ![p] = "done"]
       ELSE /\ loc' = [loc EXCEPT ![p] =
                  [RepRun EXCEPT
                      !.run = repRuns + 1, !.ts = m.ts,
                      !.thread_ts = ThreadTs(m),
                      !.stats_period = StatsPeriod(m.text)]]
            /\ pc' = [pc EXCEPT ![p] = "query"]
    /\ UNCHANGED <<app, offers, replies, reactions, reviews, sent_count,
                   approved_count, msgRuns, cbRuns, posts, queries,
                   sent_performance_count, ended>>

\* sentry_summary/main.py:64-106
RepQuery(p) ==
    /\ app = "sentry_summary"
    /\ pc[p] = "query"
    /\ \E r \in QueryOutcomes :
        /\ queries' = Append(queries,
              [statsPeriod |-> loc[p].stats_period, per_page |-> Limit,
               timeout |-> QueryTimeout, run |-> loc[p].run, ts |-> loc[p].ts])
        /\ IF r.raised
           THEN /\ loc' = [loc EXCEPT ![p].queried = "raised", ![p].propagated = r.exc]
                /\ pc' = [pc EXCEPT ![p] = "crashed"]
           ELSE /\ IF ~r.ok
                   THEN /\ loc' = [loc EXCEPT ![p].queried = "rejected", ![p].error = r.text]
                        /\ pc' = [pc EXCEPT ![p] = "say_error"]
                   ELSE /\ loc' = [loc EXCEPT ![p].queried = "ok",
                                                ![p].fields = Fields(r.data)]
                        /\ pc' = [pc EXCEPT ![p] = "say_header"]
        /\ UNCHANGED <<app, offers, replies, reactions, reviews, sent_count,
                       approved_count, msgRuns, cbRuns, posts, sent_performance_count,
                       repRuns, ended>>

\* sentry_summary/main.py:86-89
RepSayError(p) ==
    /\ app = "sentry_summary"
    /\ pc[p] = "say_error"
    /\ \E s \in SlackOutcomes :
        /\ IF s.raised
           THEN /\ loc' = [loc EXCEPT ![p].propagated = s.exc]
                /\ pc' = [pc EXCEPT ![p] = "crashed"]
                /\ UNCHANGED posts
           ELSE /\ posts' = Append(posts,
                      [kind |-> "error", blocks |-> <<>>,
                       text |-> IF loc[p].error # <<>> THEN loc[p].error
                                ELSE <<"<empty response>">>,
                       thread_ts |-> loc[p].thread_ts, run |-> loc[p].run,
                           ts |-> loc[p].ts, records |-> Len(loc[p].fields)])
                /\ loc' = [loc EXCEPT ![p].sent = @ + 1]
                /\ pc' = [pc EXCEPT ![p] = "done"]
        /\ UNCHANGED <<app, offers, replies, reactions, reviews, sent_count,
                       approved_count, msgRuns, cbRuns, queries,
                       sent_performance_count, repRuns, ended>>

\* sentry_summary/main.py:107-124
RepSayHeader(p) ==
    /\ app = "sentry_summary"
    /\ pc[p] = "say_header"
    /\ \E s \in SlackOutcomes :
        /\ IF s.raised
           THEN /\ loc' = [loc EXCEPT ![p].propagated = s.exc]
                /\ pc' = [pc EXCEPT ![p] = "crashed"]
                /\ UNCHANGED posts
           ELSE /\ LET blocks == HeaderBlocks(loc[p].stats_period, loc[p].fields)
                   IN  posts' = Append(posts,
                          [kind |-> "header", blocks |-> blocks,
                           text |-> blocks[1]["text"]["text"],
                           thread_ts |-> loc[p].thread_ts, run |-> loc[p].run,
                           ts |-> loc[p].ts, records |-> Len(loc[p].fields)])
                /\ loc' = [loc EXCEPT ![p].sent = @ + 1, ![p].i = 1]
                /\ pc' = [pc EXCEPT ![p] =
                             IF 1 <= LastChunk(loc[p].fields) THEN "say_chunk" ELSE "inc_reports"]
        /\ UNCHANGED <<app, offers, replies, reactions, reviews, sent_count,
                       approved_count, msgRuns, cbRuns, queries,
                       sent_performance_count, repRuns, ended>>

\* sentry_summary/main.py:125-135: one iteration of the chunk loop
RepSayChunk(p) ==
    /\ app = "sentry_summary"
    /\ pc[p] = "say_chunk"
    /\ \E s \in SlackOutcomes :
        /\ IF s.raised
           THEN /\ loc' = [loc EXCEPT ![p].propagated = s.exc]
                /\ pc' = [pc EXCEPT ![p] = "crashed"]
                /\ UNCHANGED posts
           ELSE /\ LET i == loc[p].i
                   IN  posts' = Append(posts,
                          [kind |-> "chunk",
                           blocks |-> <<[type |-> "section",
                                         fields |-> Slice(loc[p].fields, i * PageSize,
                                                          i * PageSize + PageSize)]>>,
                           text |-> <<"(chunk ", i, ")">>,
                           thread_ts |-> loc[p].thread_ts, run |-> loc[p].run,
                           ts |-> loc[p].ts, records |-> Len(loc[p].fields)])
                /\ loc' = [loc EXCEPT ![p].sent = @ + 1, ![p].i = @ + 1]
                /\ pc' = [pc EXCEPT ![p] =
                             IF loc[p].i + 1 <= LastChunk(loc[p].fields)
                             THEN "say_chunk" ELSE "inc_reports"]
        /\ UNCHANGED <<app, offers, replies, reactions, reviews, sent_count,
                       approved_count, msgRuns, cbRuns, queries,
                       sent_performance_count, repRuns, ended>>

\* sentry_summary/main.py:136
RepInc(p) ==
    /\ app = "sentry_summary"
    /\ pc[p] = "inc_reports"
    /\ sent_performance_count' = inc(sent_performance_count)
    /\ loc' = [loc EXCEPT ![p].counted = TRUE]
    /\ pc' = [pc EXCEPT ![p] = "done"]
    /\ UNCHANGED <<app, offers, replies, reactions, reviews, sent_count,
                   approved_count, msgRuns, cbRuns, posts, queries, repRuns, ended>>


\* The handler has returned or raised: the thread takes the next delivery.
Return(p) ==
    /\ pc[p] \in Terminal
    /\ pc' = [pc EXCEPT ![p] = "idle"]
    /\ loc' = [loc EXCEPT ![p] = NoRun]
    /\ ended' = Bump(ended, <<loc[p].kind, Event(p), Outcome(p)>>)
    /\ UNCHANGED <<app, offers, replies, reactions, reviews, sent_count,
                   approved_count, msgRuns, cbRuns, posts, queries,
                   sent_performance_count, repRuns>>

\* ------------------------------------------------------------------ specification
Init ==
    /\ app \in {"approve_button", "sentry_summary"}
    /\ pc = [p \in Workers |-> "idle"]
    /\ loc = [p \in Workers |-> NoRun]
    /\ offers = <<>>
    /\ replies = <<>>
    /\ reactions = {}
    /\ reviews = <<>>
    /\ sent_count = 0
    /\ approved_count = 0
    /\ msgRuns = 0
    /\ cbRuns = 0
    /\ posts = <<>>
    /\ queries = <<>>
    /\ sent_performance_count = 0
    /\ repRuns = 0
    /\ ended = <<>>

Next ==
    \/ \E p \in Workers, m \in Messages : MsgIgnore(p, m)
    \/ \E p \in Workers, m \in Messages : MsgDeliver(p, m)
    \/ \E p \in Workers : MsgGetDiff(p)
    \/ \E p \in Workers : MsgSay(p)
    \/ \E p \in Workers : MsgInc(p)
    \/ \E p \in Workers, o \in 1..Len(offers), v \in Variants, u \in Users :
          CbDeliver(p, o, v, u)
    \/ \E p \in Workers : CbGetSecret(p)
    \/ \E p \in Workers : CbPost(p)
    \/ \E p \in Workers : CbFail(p)
    \/ \E p \in Workers : CbReact(p)
    \/ \E p \in Workers : CbDelete(p)
    \/ \E p \in Workers : CbInc(p)
    \/ \E p \in Workers, m \in RepMessages : RepIgnore(p, m)
    \/ \E p \in Workers, m \in RepMessages : RepDeliver(p, m)
    \/ \E p \in Workers : RepQuery(p)
    \/ \E p \in Workers : RepSayError(p)
    \/ \E p \in Workers : RepSayHeader(p)
    \/ \E p \in Workers : RepSayChunk(p)
    \/ \E p \in Workers : RepInc(p)
    \/ \E p \in Workers : Return(p)

Spec == Init /\ [][Next]_vars


\* ------------------------------------------------------------------ properties
Approving(p) == loc[p].kind = "action_approve"
Offering(p) == loc[p].kind = "message_url"
Reporting(p) == loc[p].kind = "report_api_performance"
Ended(p) == pc[p] \in Terminal

ContextKeys == {"repository", "number", "ts"}
\* The callback's message carries a complete workflow context.
Decodable(message) ==
    /\ Has(message, "metadata")
    /\ Has(message["metadata"], "event_payload")
    /\ ContextKeys \subseteq DOMAIN message["metadata"]["event_payload"]

\* The approval attempt of the run failed: the credential lookup raised, the
\* POST raised, or the POST returned a non-success status.
AttemptFailed(p) == loc[p].secret = "raised" \/ loc[p].post \in {"raised", "rejected"}

\* The run issued the two-block failure reply for repo#number with the detail:
\* say() was called with it (and, unless Slack refused it, it is in the channel).
IsFailReply(m, repo, number, detail) ==
    /\ Len(m.blocks) = 2
    /\ m.blocks[1].text.text = <<"Failed to approve *", repo, "#", number, "*:">>
    /\ m.blocks[2].text.text = detail
FailReplyIssued(p) ==
    \/ loc[p].replied = "raised"
    \/ /\ loc[p].replied = "sent"
       /\ \E i \in 1..Len(replies) :
             \E repo \in {offers[o].msg.metadata.event_payload.repository : o \in {loc[p].offer}},
                number \in {offers[o].msg.metadata.event_payload.number : o \in {loc[p].offer}} :
                IsFailReply(replies[i].msg, repo, number, loc[p].reason)

\* C1: every approval callback whose attempt fails leaves approved_prs alone,
\* leaves the offer message in place, adds no reaction and issues the two-block
\* failure reply naming repository#number and the failure detail.
C1_FailedApprovalRepliesAndKeepsOffer ==
    \A p \in Workers :
        (Approving(p) /\ Ended(p) /\ AttemptFailed(p)) =>
            /\ ~loc[p].counted
            /\ ~loc[p].deleted
            /\ loc[p].reacted = <<>>
            /\ FailReplyIssued(p)

\* C2: a callback whose metadata is missing or lacks a workflow field is a
\* decode error: the handler issues a failure reply and submits no approval.
C2_UndecodableCallbackFailsClosed ==
    \A p \in Workers :
        (Approving(p) /\ ~Decodable(loc[p].body["message"])) =>
            /\ loc[p].post \in {"none", "not_sent"}
            /\ Ended(p) => loc[p].replied # "none"

\* The runs of a handler on one logical event that went through to the
\* counter increment: the ended ones and the ones whose thread has not yet
\* returned.
CountedOutcome(kind) == IF kind = "action_approve" THEN "approved" ELSE "reported"
Counted(p) ==
    /\ pc[p] = "done"
    /\ \/ Approving(p) /\ loc[p].post = "ok"
       \/ Reporting(p) /\ loc[p].queried = "ok"
CountedRuns(kind, e) ==
    Count(ended, <<kind, e, CountedOutcome(kind)>>)
    + Cardinality({p \in Workers : loc[p].kind = kind /\ Event(p) = e /\ Counted(p)})
CountedTotal(kind) ==
    EndedWith(kind, CountedOutcome(kind))
    + Cardinality({p \in Workers : loc[p].kind = kind /\ Counted(p)})
PendingSent == Cardinality({p \in Workers : pc[p] = "inc_sent"})
OfferContext(o) == offers[o].msg.metadata.event_payload
OffersFor(ts) == {o \in 1..Len(offers) : OfferContext(o).ts = ts}

\* C3 as stated: however often one message or one callback is delivered, its
\* counter grows by at most one per logical event (per link, for offers).
C3_CountedOncePerLogicalEvent ==
    /\ \A o \in 1..Len(offers) : CountedRuns("action_approve", o) <= 1
    /\ \A m \in RepMessages : CountedRuns("report_api_performance", m.ts) <= 1
    /\ \A m \in Messages : Cardinality(OffersFor(m.ts)) <= Len(finditer(m.text))

\* C3 as amended: each counter is incremented exactly once per completed flow
\* of a handler run (per offer posted, per approval run that reacted and
\* deleted, per report run that sent its pages) and never by a run that
\* failed; deliveries are not de-duplicated.
C3_CountedOncePerCompletedRun ==
    /\ sent_count + PendingSent = Len(offers)
    /\ approved_count = CountedTotal("action_approve")
    /\ sent_performance_count = CountedTotal("report_api_performance")

\* One message delivered twice, and both deliveries counted.
C3_Witness ==
    /\ sent_performance_count = 2
    /\ \E m \in RepMessages : CountedRuns("report_api_performance", m.ts) = 2

\* C4: when the diff read of a link fails (the call raises, or the status is
\* not a success) the handler still posts the offer for that link, without a
\* diff block.
C4_FailedDiffReadStillOffers ==
    \A p \in Workers :
        (Offering(p) /\ loc[p].read \in {"raised", "rejected"}) =>
            \/ pc[p] = "say_offer" /\ loc[p].diff = <<>>
            \/ /\ pc[p] = "inc_sent"
               /\ \E o \in 1..Len(offers) :
                     /\ offers[o].run = loc[p].run
                     /\ Len(offers[o].msg.blocks) = 2
                     /\ OfferContext(o) = [repository |-> CurRepo(p), number |-> CurNumber(p),
                                           ts |-> loc[p].ts]
            \/ pc[p] = "crashed" /\ loc[p].propagated.type = "SlackApiError"

\* C5: an exception raised by the credential lookup or by the approval POST is
\* caught and becomes a failure reply carrying its type and message; nothing
\* but a failure of the reply itself leaves the handler.  After a failed
\* credential lookup no approval is submitted, the offer stays and
\* approved_prs is unchanged.
C5_ApprovalExceptionsBecomeReplies ==
    \A p \in Workers :
        (Approving(p) /\ Ended(p) /\ (loc[p].secret = "raised" \/ loc[p].post = "raised")) =>
            /\ FailReplyIssued(p)
            /\ Len(loc[p].reason) = 3 /\ loc[p].reason[2] = ": "
            /\ loc[p].propagated = <<>> \/ loc[p].replied = "raised"
            /\ loc[p].secret = "raised" =>
                  loc[p].post = "none" /\ ~loc[p].deleted /\ ~loc[p].counted

\* C6: whenever the approval request returns success, the run ends with the
\* reaction on the triggering message, the offer deleted, no text reply and
\* approved_prs incremented (unless Slack itself refused a call).
C6_SuccessfulApprovalCompletes ==
    \A p \in Workers :
        (Approving(p) /\ Ended(p) /\ loc[p].post = "ok"
                      /\ ~(loc[p].propagated # <<>> /\ loc[p].propagated.type = "SlackApiError")) =>
            /\ pc[p] = "done"
            /\ loc[p].reacted # <<>>
            /\ loc[p].deleted
            /\ offers[loc[p].offer].deleted
            /\ loc[p].replied = "none"
            /\ loc[p].counted

\* C7: when the performance query fails, by a transport failure or by a
\* non-success status, the run posts one reply in the triggering message's
\* thread (the body, or a placeholder for an empty body), does not raise,
\* posts no report page and leaves the reports counter alone.
C7_FailedQueryIsSurfaced ==
    \A p \in Workers :
        (Reporting(p) /\ Ended(p) /\ loc[p].queried \in {"raised", "rejected"}) =>
            /\ ~loc[p].counted
            /\ \A i \in 1..Len(posts) : posts[i].run = loc[p].run => posts[i].kind = "error"
            /\ \/ /\ pc[p] = "done"
                  /\ \E i \in 1..Len(posts) :
                        /\ posts[i].run = loc[p].run
                        /\ posts[i].thread_ts = loc[p].thread_ts
                        /\ posts[i].text # <<>>
                        /\ loc[p].error # <<>> => posts[i].text = loc[p].error
                  /\ loc[p].sent = 1
               \/ pc[p] = "crashed" /\ loc[p].propagated.type = "SlackApiError"

\* ------------------------------------------------------------------ links
\* What a valid pull-request link is, said without the scanner: at s the
\* prefix and the organisation, a non-empty name free of "/", "/pull/", then
\* the whole run of digits.  A link starts with the prefix, which is neither a
\* name character nor a digit, so two links never overlap.
IsLink(text, s, k, e) ==
    /\ s + 2 <= k /\ k + 2 <= e /\ e <= Len(text)
    /\ text[s] = G /\ text[s + 1] = O
    /\ \A j \in (s + 2)..k : NotSlash(text[j])
    /\ text[k + 1] = U
    /\ \A j \in (k + 2)..e : IsDigit(text[j])
    /\ e = Len(text) \/ ~IsDigit(text[e + 1])
LinkSpans(text) ==
    {x \in (1..Len(text)) \X (1..Len(text)) \X (1..Len(text)) : IsLink(text, x[1], x[2], x[3])}
RECURSIVE Pow10(_)
Pow10(n) == IF n = 0 THEN 1 ELSE 10 * Pow10(n - 1)
RECURSIVE Decimal(_)
Decimal(ds) ==
    IF ds = <<>> THEN 0 ELSE DigitVal(Head(ds)) * Pow10(Len(ds) - 1) + Decimal(Tail(ds))
LinkOf(text, x) ==
    [repo |-> <<O>> \o SubSeq(text, x[1] + 2, x[2]),
     number |-> Decimal(SubSeq(text, x[2] + 2, x[3]))]
\* the links of a text in order of occurrence
ExpectedLinks(text) ==
    LET spans == LinkSpans(text)
        nth == CHOOSE f \in [1..Cardinality(spans) -> spans] :
                   \A i, j \in 1..Cardinality(spans) : i < j => f[i][1] < f[j][1]
    IN  [i \in 1..Cardinality(spans) |-> LinkOf(text, nth[i])]
Expected == [m \in Messages |-> ExpectedLinks(m.text)]
\* the parameter sets the handler's loop works through (main.py:51-53)
ParameterSets(text) ==
    [i \in 1..Len(finditer(text)) |->
        [repo |-> finditer(text)[i].group1, number |-> int(finditer(text)[i].group2)]]
Produced == [m \in Messages |-> ParameterSets(m.text)]
MessageAt(ts) == CHOOSE m \in Messages : m.ts = ts
OfferLink(o) == [repo |-> OfferContext(o).repository, number |-> OfferContext(o).number]
OffersOfRun(r) == SelectSeq(offers, LAMBDA x : x.run = r)
LinkOfEntry(x) ==
    [repo |-> x.msg.metadata.event_payload.repository,
     number |-> x.msg.metadata.event_payload.number]

\* C8: an approval attempt that fails on a transport error leaves the offer
\* undeleted and the counter alone, so the same callback can be delivered
\* again; the offer is deleted only by an attempt whose POST succeeded, and
\* approved_prs grows only by one, at the end of such an attempt.
C8_RetryAfterTransportFailure ==
    /\ [](\A p \in Workers :
            (Approving(p) /\ loc[p].post = "raised") =>
                /\ ~loc[p].deleted /\ ~loc[p].counted /\ loc[p].reacted = <<>>
                /\ pc[p] \in {"fail", "done", "crashed"})
    /\ [](\A o \in 1..Len(offers) :
            (CountedRuns("action_approve", o) = 0
             /\ \A p \in Workers : ~(Approving(p) /\ loc[p].offer = o /\ loc[p].deleted))
                => ~offers[o].deleted)
    /\ [][\A o \in 1..Len(offers) :
            (~offers[o].deleted /\ offers'[o].deleted) =>
                \E p \in Workers : /\ Approving(p) /\ loc[p].offer = o
                                   /\ loc[p].post = "ok" /\ pc[p] = "delete"
                                   /\ pc'[p] = "inc_approved"]_vars
    /\ [][approved_count' # approved_count =>
            /\ approved_count' = approved_count + 1
            /\ \E p \in Workers : /\ Approving(p) /\ loc[p].post = "ok"
                                  /\ loc[p].deleted /\ offers[loc[p].offer].deleted
                                  /\ pc[p] = "inc_approved" /\ pc'[p] = "done"]_vars

\* The second attempt on an offer succeeds after the first failed on a
\* transport error: one increment in all, the offer deleted.
C8_Witness ==
    \E p \in Workers :
        /\ Approving(p) /\ loc[p].attempt = 2 /\ Counted(p) /\ loc[p].counted
        /\ Count(ended, <<"action_approve", loc[p].offer, "failed">>) = 1
        /\ \E i \in 1..Len(replies) :
              replies[i].msg.blocks[2].text.text = <<"ConnectionError", ": ", "connection aborted">>
        /\ offers[loc[p].offer].deleted
        /\ approved_count = 1

\* C9: every offer carries event_type "approve_offer" and the context
\* (repository, number, ts) of the link and message it was made for; a run of
\* action_approve on the offer reads that same context, submits the review
\* for the repository and number the offer names and reacts on the
\* triggering message's ts.
C9_ContextRoundTrips ==
    /\ \A o \in 1..Len(offers) :
          /\ offers[o].msg.metadata.event_type = "approve_offer"
          /\ DOMAIN OfferContext(o) = ContextKeys
          /\ OfferContext(o).ts = offers[o].trigger
          /\ offers[o].msg.text =
                <<"Approve this PR? ", OfferContext(o).repository, "#", OfferContext(o).number>>
          /\ \E i \in 1..Len(Expected[MessageAt(offers[o].trigger)]) :
                Expected[MessageAt(offers[o].trigger)][i] = OfferLink(o)
    /\ \A p \in Workers :
          (Approving(p) /\ loc[p].variant = "intact") =>
              /\ loc[p].metadata = OfferContext(loc[p].offer)
              /\ loc[p].post \in {"ok", "rejected"} =>
                    \E i \in 1..Len(reviews) :
                        /\ reviews[i].repository = offers[loc[p].offer].msg.text[2]
                        /\ reviews[i].number = offers[loc[p].offer].msg.text[4]
              /\ loc[p].reacted # <<>> =>
                    /\ loc[p].reacted = <<offers[loc[p].offer].trigger>>
                    /\ [channel |-> Channel, timestamp |-> offers[loc[p].offer].trigger,
                        name |-> "heavy_check_mark"] \in reactions
    /\ \A i \in 1..Len(reviews) :
          \E o \in 1..Len(offers) :
              reviews[i].repository = OfferContext(o).repository
              /\ reviews[i].number = OfferContext(o).number

\* An approval went through on an offer made for the second link of a message.
C9_Witness ==
    \E p \in Workers :
        /\ Approving(p) /\ pc[p] = "done" /\ loc[p].post = "ok"
        /\ loc[p].offer = 2
        /\ loc[p].reacted = <<"ts2">>
        /\ \E i \in 1..Len(reviews) :
              reviews[i].ok /\ reviews[i].repository = <<O, "bar", "1">> /\ reviews[i].number = 3

\* C10: for a text with N valid links the handler works through exactly N
\* parameter sets, one per link in order of occurrence, each with the link's
\* repo and number; the offers of a run are, in order, those of the links it
\* has got through, and a run that completes has sent N offers and counted N.
C10_OneOfferPerLink ==
    /\ \A m \in Messages : Produced[m] = Expected[m]
    /\ \A p \in Workers :
          Offering(p) =>
              LET exp == Expected[MessageAt(loc[p].ts)]
                  mine == OffersOfRun(loc[p].run)
              IN  /\ Len(mine) <= Len(exp)
                  /\ \A i \in 1..Len(mine) : LinkOfEntry(mine[i]) = exp[i]
                  /\ pc[p] = "done" =>
                        /\ Len(mine) = Len(exp)
                        /\ loc[p].i - 1 = Len(exp)
    /\ sent_count + PendingSent = Len(offers)
    /\ \A m \in Messages : Len(Expected[m]) = 0 => OffersFor(m.ts) = {}

\* A run on a message with two links among other text has completed: two
\* offers, two increments.
C10_Witness ==
    \E p \in Workers :
        /\ Offering(p) /\ pc[p] = "done" /\ loc[p].ts = "ts2"
        /\ Len(OffersOfRun(loc[p].run)) = 2
        /\ LinkOfEntry(offers[1]) = [repo |-> <<O, "foo">>, number |-> 7]
        /\ LinkOfEntry(offers[2]) = [repo |-> <<O, "bar", "1">>, number |-> 3]
        /\ sent_count = 2

\* ------------------------------------------------------------------ reports
RepMessageAt(ts) == CHOOSE m \in RepMessages : m.ts = ts
PostsOfRun(r) == SelectSeq(posts, LAMBDA x : x.run = r)
\* the records a page shows
PageRecords(post) ==
    CASE post.kind = "header" -> post.blocks[3].fields
      [] post.kind = "chunk" -> post.blocks[1].fields
      [] OTHER -> <<>>
RECURSIVE Flatten(_)
Flatten(pages) ==
    IF pages = <<>> THEN <<>> ELSE PageRecords(Head(pages)) \o Flatten(Tail(pages))
\* the pages a result of M records takes: one, plus one for every started ten
\* past the first ten
ExpectedPages(M) == IF M <= 10 THEN 1 ELSE 1 + ((M - 10) + 9) \div 10
Paging(p) == Reporting(p) /\ loc[p].queried = "ok"
AllSent(p) == pc[p] \in {"inc_reports", "done"}

\* C11: a successful query of M records is reported in exactly one message
\* when M <= 10 and in one header with the first 10 records plus
\* ceil((M-10)/10) chunks when M > 10, the chunks numbered 1, 2, ...
C11_PagesPerReport ==
    \A p \in Workers :
        Paging(p) =>
            LET M == Len(loc[p].fields)
                mine == PostsOfRun(loc[p].run)
            IN  /\ AllSent(p) => Len(mine) = ExpectedPages(M)
                /\ ~AllSent(p) => Len(mine) < ExpectedPages(M)
                /\ \A j \in 1..Len(mine) :
                      IF j = 1
                      THEN /\ mine[j].kind = "header"
                           /\ PageRecords(mine[j]) =
                                 SubSeq(loc[p].fields, 1, IF M <= 10 THEN M ELSE 10)
                      ELSE /\ mine[j].kind = "chunk"
                           /\ mine[j].text = <<"(chunk ", j - 1, ")">>

\* A result of 21 records has gone out as a header and chunks 1 and 2.
C11_Witness ==
    \E p \in Workers :
        /\ Paging(p) /\ pc[p] = "done" /\ Len(loc[p].fields) = 21
        /\ Len(PostsOfRun(loc[p].run)) = 3
        /\ PostsOfRun(loc[p].run)[3].text = <<"(chunk ", 2, ")">>

\* The time windows of a text, said without the scanner: a non-empty run of
\* digits followed by "h" or "d".  The first one is the one that starts
\* leftmost.
TimeWindows(text) ==
    {x \in (1..Len(text)) \X (1..Len(text)) :
        /\ x[1] < x[2]
        /\ \A j \in x[1]..(x[2] - 1) : IsDigit(text[j])
        /\ text[x[2]] \in {"h", "d"}}
ExpectedPeriod(text) ==
    IF TimeWindows(text) = {} THEN <<"2", "4", "h">>
    ELSE LET x == CHOOSE y \in TimeWindows(text) : \A z \in TimeWindows(text) : y[1] <= z[1]
         IN  SubSeq(text, x[1], x[2])
ExpectedPeriods == [m \in RepMessages |-> ExpectedPeriod(m.text)]

\* C13: a query is issued only for a message that matches the trigger
\* pattern and contains "api", at most once per handling of the message, with
\* statsPeriod the first time window of the text or "24h", and per_page 20.
C13_QueryOnlyWhenTriggered ==
    /\ \A i \in 1..Len(queries) :
          LET q == queries[i]
              m == RepMessageAt(q.ts)
          IN  /\ q.ts \in {"p1", "p2", "p6"}
              /\ TriggerMatches(m.text) /\ Contains(m.text, "api")
              /\ q.statsPeriod = ExpectedPeriods[m]
              /\ q.per_page = 20
              /\ \A j \in 1..Len(queries) : j # i => queries[j].run # q.run
    /\ \A p \in Workers :
          Reporting(p) =>
              Cardinality({i \in 1..Len(queries) : queries[i].run = loc[p].run})
                  = IF loc[p].queried = "none" THEN 0 ELSE 1

\* Two messages have been queried for: one names its window after another
\* number, one names none.
C13_Witness ==
    /\ \E i \in 1..Len(queries) :
          queries[i].ts = "p6" /\ queries[i].statsPeriod = <<"1", "0", "d">>
    /\ \E i \in 1..Len(queries) :
          queries[i].ts = "p1" /\ queries[i].statsPeriod = <<"2", "4", "h">>
    /\ Len(queries) = 2

\* C14: every message sent for one triggering message (header, chunks,
\* failure reply) goes to the triggering message's thread_ts when it has one
\* and to its own ts otherwise.
C14_RepliesInOneThread ==
    \A i \in 1..Len(posts) :
        LET m == RepMessageAt(posts[i].ts)
        IN  posts[i].thread_ts =
                IF "thread_ts" \in DOMAIN m THEN m["thread_ts"] ELSE m["ts"]

\* A threaded message got a header and a chunk in its thread, an unthreaded
\* one got a failure reply on itself.
C14_Witness ==
    /\ \E i, j \in 1..Len(posts) :
          /\ posts[i].kind = "header" /\ posts[j].kind = "chunk"
          /\ posts[i].ts = "p2" /\ posts[j].ts = "p2"
          /\ posts[i].thread_ts = "p0" /\ posts[j].thread_ts = "p0"
    /\ \E i \in 1..Len(posts) :
          posts[i].kind = "error" /\ posts[i].ts = "p1" /\ posts[i].thread_ts = "p1"

\* C19: the pages of a report partition the result: put end to end they are
\* the records in the API's order, each once; no page has more than 10 and no
\* chunk is empty.
C19_PagesPartitionTheResult ==
    \A p \in Workers :
        Paging(p) =>
            LET mine == PostsOfRun(loc[p].run)
                shown == Flatten(mine)
            IN  /\ \A i, j \in 1..Len(loc[p].fields) :
                      i # j => loc[p].fields[i] # loc[p].fields[j]
                /\ Len(shown) <= Len(loc[p].fields)
                /\ shown = SubSeq(loc[p].fields, 1, Len(shown))
                /\ AllSent(p) => shown = loc[p].fields
                /\ \A j \in 1..Len(mine) :
                      /\ Len(PageRecords(mine[j])) <= 10
                      /\ mine[j].kind = "chunk" => Len(PageRecords(mine[j])) >= 1

\* 21 records went out as pages of 10, 10 and 1.
C19_Witness ==
    \E p \in Workers :
        /\ Paging(p) /\ AllSent(p) /\ Len(loc[p].fields) = 21
        /\ Len(PageRecords(PostsOfRun(loc[p].run)[1])) = 10
        /\ Len(PageRecords(PostsOfRun(loc[p].run)[2])) = 10
        /\ Len(PageRecords(PostsOfRun(loc[p].run)[3])) = 1

\* ------------------------------------------------------------------ diff shown
\* The lines of a text and its changed lines, said without the splitter and
\* the filter: a line lies between two consecutive breaks.
Breaks(text) == {0, Len(text) + 1} \cup {i \in 1..Len(text) : text[i] = NL}
NthIn(S, n) == CHOOSE x \in S : Cardinality({y \in S : y < x}) = n - 1
LinesOf(text) ==
    [k \in 1..(Cardinality(Breaks(text)) - 1) |->
        SubSeq(text, NthIn(Breaks(text), k) + 1, NthIn(Breaks(text), k + 1) - 1)]
ChangedAt(lines) ==
    {i \in 1..Len(lines) : Len(lines[i]) >= 1 /\ lines[i][1] \in {"+", "-"}}
ExpectedDiff(text) ==
    LET lines == LinesOf(text)
        at == ChangedAt(lines)
        n == Cardinality(at)
    IN  [k \in 1..(IF n > 8 THEN 8 ELSE n) |-> lines[NthIn(at, k)]]
        \o (IF n > 8 THEN <<<<".", ".", ".">>>> ELSE <<>>)
ExpectedDiffs == [n \in {42, 7, 3} |-> ExpectedDiff(DiffOf(<<>>, n))]
CodeBlock(lines) == <<Fence>> \o join(NL, lines) \o <<Fence>>

\* C12: the code block of an offer holds the lines of the fetched diff that
\* start with "+" or "-", in order; the first 8 and an ellipsis line when there
\* are more than 8, all of them and no ellipsis otherwise.
C12_DiffIsTruncated ==
    /\ \A o \in 1..Len(offers) :
          Len(offers[o].msg.blocks) = 3 =>
              offers[o].msg.blocks[3].text.text =
                  CodeBlock(ExpectedDiffs[OfferContext(o).number])
    /\ \A p \in Workers :
          (Offering(p) /\ loc[p].read = "ok") =>
              /\ Len(loc[p].diff) = 1
              /\ loc[p].diff[1].text.text = CodeBlock(ExpectedDiffs[CurNumber(p)])

\* One message got an offer with a diff of 9 changed lines cut to 8 and the
\* ellipsis, and one with exactly 8 changed lines and no ellipsis.
C12_Witness ==
    /\ Len(offers) = 2
    /\ Len(offers[1].msg.blocks) = 3 /\ Len(offers[2].msg.blocks) = 3
    /\ offers[1].msg.blocks[3].text.text =
          <<Fence, "-", "1", NL, "+", "2", NL, "+", "3", NL, "+", "4", NL, "-", "5", NL,
            "+", "6", NL, "+", "7", NL, "-", "8", NL, ".", ".", ".", Fence>>
    /\ offers[2].msg.blocks[3].text.text =
          <<Fence, "+", "1", NL, "+", "2", NL, "-", "3", NL, "+", "4", NL, "-", "5", NL,
            "+", "6", NL, "+", "7", NL, "-", "8", Fence>>

\* C15: callbacks on one offer are not serialized: while the offer exists a
\* further click on it starts a handler whatever the other handlers are doing,
\* and a handler that has read the context goes on to the credential and the
\* POST without waiting for any other.
C15_CallbacksAreNotSerialized ==
    /\ \A o \in 1..Len(offers) : \A p \in Workers :
          (pc[p] = "idle" /\ cbRuns < MaxCbRuns /\ ~offers[o].deleted) =>
              ENABLED CbDeliver(p, o, "intact", "U1")
    /\ \A p \in Workers :
          /\ (Approving(p) /\ pc[p] = "get_secret") => ENABLED CbGetSecret(p)
          /\ (Approving(p) /\ pc[p] = "post") => ENABLED CbPost(p)

\* Two handlers on one offer have both read its context and both had their
\* review accepted, and the offer is still there.
C15_Witness ==
    \E p, q \in Workers :
        /\ p # q /\ Approving(p) /\ Approving(q)
        /\ loc[p].offer = loc[q].offer
        /\ loc[p].metadata = OfferContext(loc[p].offer)
        /\ loc[q].metadata = OfferContext(loc[p].offer)
        /\ loc[p].post = "ok" /\ loc[q].post = "ok"
        /\ ~loc[p].deleted /\ ~loc[q].deleted /\ ~offers[loc[p].offer].deleted
        /\ Len(reviews) = 2 /\ reviews[1] = reviews[2] /\ reviews[1].ok
        /\ reviews[1].repository = OfferContext(loc[p].offer).repository
        /\ reviews[1].number = OfferContext(loc[p].offer).number

C17_NonTriggersAreSilent ==
    /\ [](\A i \in 1..Len(posts) : posts[i].ts \in {"p1", "p2", "p6"})
    /\ [](\A i \in 1..Len(queries) : queries[i].ts \in {"p1", "p2", "p6"})
    /\ [](\A o \in 1..Len(offers) : offers[o].trigger \in {"ts1", "ts2"})
    /\ [](\A p \in Workers :
            (Reporting(p) /\ loc[p].ts \notin {"p1", "p2", "p6"}) =>
                /\ pc[p] = "done" /\ loc[p].queried = "none"
                /\ loc[p].sent = 0 /\ ~loc[p].counted)
    /\ [][(repRuns' # repRuns \/ msgRuns' # msgRuns) =>
            UNCHANGED <<offers, replies, reactions, reviews, posts, queries,
                        sent_count, approved_count, sent_performance_count>>]_vars

\* The handler has returned on a message about performance that lacks "api",
\* and nothing was called, said or counted.
C17_Witness ==
    \E p \in Workers :
        /\ Reporting(p) /\ loc[p].ts = "p3" /\ pc[p] = "done"
        /\ repRuns = 1 /\ posts = <<>> /\ queries = <<>>
        /\ sent_performance_count = 0

\* C18: an offer is deleted only if a review request for its repository and
\* number returned success, and approved_prs never exceeds the number of
\* review requests that returned success.
C18_OnlyMadeApprovalsCount ==
    /\ \A o \in 1..Len(offers) :
          offers[o].deleted =>
              \E i \in 1..Len(reviews) :
                  /\ reviews[i].ok
                  /\ reviews[i].repository = OfferContext(o).repository
                  /\ reviews[i].number = OfferContext(o).number
    /\ approved_count <= Cardinality({i \in 1..Len(reviews) : reviews[i].ok})

\* A refused review and then an accepted one: the offer is deleted and one
\* approval is counted.
C18_Witness ==
    /\ Len(reviews) = 2 /\ ~reviews[1].ok /\ reviews[2].ok
    /\ offers[1].deleted
    /\ approved_count = 1

\* the report runs whose header and every chunk have been sent
CompleteReports ==
    {r \in 1..repRuns :
        LET mine == PostsOfRun(r)
        IN  /\ Len(mine) >= 1 /\ mine[1].kind = "header"
            /\ Len(mine) = ExpectedPages(mine[1].records)}

\* C20: a counter is incremented only after the sends of its flow: sent_offers
\* never exceeds the offers sent, the reports counter never exceeds the
\* reports sent in full, and a handler that stops partway has counted
\* nothing for what it did not send.
C20_CountedAfterSends ==
    /\ sent_count <= Len(offers)
    /\ sent_performance_count <= Cardinality(CompleteReports)
    /\ \A p \in Workers :
          /\ (Reporting(p) /\ pc[p] = "crashed") => ~loc[p].counted
          /\ (Reporting(p) /\ loc[p].counted) => loc[p].run \in CompleteReports
          /\ (Offering(p) /\ pc[p] = "crashed") =>
                /\ Len(OffersOfRun(loc[p].run)) = loc[p].i - 1
                /\ sent_count + PendingSent = Len(offers)

\* The handler stopped on the second link of a message: one offer sent and
\* counted, nothing for the second.
C20_Witness ==
    \E p \in Workers :
        /\ Offering(p) /\ pc[p] = "crashed" /\ loc[p].ts = "ts2" /\ loc[p].i = 2
        /\ Len(offers) = 1 /\ sent_count = 1

====
